---- MODULE Spec2Model ----
(***************************************************************************)
(* A model of ExcalidrawAgent (src/test/excalidraw_agent.py): the element  *)
(* factories, the arrow binder, the group and id counters, the three       *)
(* layouts and the document assembler.                                      *)
(*                                                                         *)
(* Python dicts are mutable objects that the agent's element list, the     *)
(* lists the layouts return and the caller all share, so the model keeps a *)
(* heap: heap[a] is the dict with address a, in creation order, and every  *)
(* list holds addresses.  Lengths and coordinates are fixed-point numbers  *)
(* in units of 1/Scale, which is exact for every product the code forms    *)
(* with 0.6, 1.2, 0.3 and 1.5.                                             *)
(***************************************************************************)
EXTENDS Integers, Sequences, FiniteSets, TLC

VARIABLES
    heap,              \* every dict created so far, by address 1..Len(heap)
    elements,          \* self.elements: addresses (NoneRef for a None entry)
    element_counter,   \* self.element_counter
    group_counter,     \* self.group_counter
    current_group_id,  \* self.current_group_id (None when no group is active)
    labelled,          \* history: <<shape, text>> pairs the shape factories returned
    call,              \* the last call and its arguments
    ret,               \* what the last call returned
    err,               \* the exception the last call raised, or NoError
    calls,             \* history: the calls made on the agent, when they are recorded
    other,             \* a second ExcalidrawAgent: its fields, its calls, its last return
    monitor,           \* the DrivingTestMonitor of the GUI: _running, _stop_flag, settings
    task,              \* per task of the monitor thread's event loop: its start() invocation
    hist               \* history: the task running on the event loop, starts, stop() calls

vars == <<heap, elements, element_counter, group_counter, current_group_id,
          labelled, call, ret, err, calls, other, monitor, task, hist>>

---------------------------------------------------------------------------
(* Bounds of the model. *)
MaxHeap == 4        \* creating calls are made while fewer dicts than this exist
MaxElems == 2       \* the caller adds single elements while the list is shorter
MaxItems == 3       \* longest label list given to a layout
MaxPrior == 2       \* a layout is called while fewer dicts than this exist
MaxOpsHeap == 3     \* with every operation at hand, dicts are created while fewer exist
MaxCalls == 3       \* calls recorded on each of two agents
MaxTasks == 2       \* tasks that call start() on the one monitor
MaxStarts == 2      \* invocations of start() in all
MaxChecks == 2      \* page refreshes of one run
MaxInterval == 2    \* largest check_interval, in seconds
MaxGroups == 2      \* start_group is called while fewer groups than this were started

(* Python values. *)
None == "None"      \* None where the code expects a string
NoneRef == 0        \* None where the code expects a dict
Scale == 10         \* fixed-point unit: 1.0 is Scale
NoError == "none"

(* Defaults of ExcalidrawAgent.__init__, in model units. *)
default_spacing_x == 150 * Scale
default_spacing_y == 100 * Scale
default_text_size == 16
default_element_width == 120 * Scale
default_element_height == 60 * Scale

(* ColorScheme. *)
LLM == "#ffec99"
CODE == "#a5d8ff"
TRANSPARENT == "transparent"

---------------------------------------------------------------------------
(* The agent and its heap as one value, threaded through the helpers. *)
World ==
    [heap |-> heap, elements |-> elements, element_counter |-> element_counter,
     group_counter |-> group_counter, current_group_id |-> current_group_id,
     labelled |-> labelled]

(* ExcalidrawAgent.__init__ *)
NewAgent ==
    [heap |-> <<>>, elements |-> <<>>, element_counter |-> 0,
     group_counter |-> 0, current_group_id |-> None, labelled |-> {}]

(* A _generate_id whose counter is the one of the first agent constructed. *)
generate_id_first_agent_counter(w, prefix) ==
    [w |-> [w EXCEPT !.element_counter = element_counter + 1],
     r |-> prefix \o "-" \o ToString(element_counter + 1)]

(* A _generate_id that formats the next number but does not store it. *)
generate_id_counter_not_stored(w, prefix) ==
    [w |-> w, r |-> prefix \o "-" \o ToString(w.element_counter + 1)]

(* _generate_id: increments the counter and formats "{prefix}-{n}". *)
generate_id(w, prefix) ==
    LET n == w.element_counter + 1
    IN  [w |-> [w EXCEPT !.element_counter = n],
         r |-> prefix \o "-" \o ToString(n)]

(* _generate_group_id *)
generate_group_id(w) ==
    LET n == w.group_counter + 1
    IN  [w |-> [w EXCEPT !.group_counter = n],
         r |-> "group-" \o ToString(n)]

(* _create_base_element: allocates the dict; element_id = None issues an    *)
(* "element-n" id.  index, seed, versionNonce and updated read the counter  *)
(* after the id was issued; updated is kept as its offset from the base     *)
(* 1757460000000.  The fields that are the same constant in every element   *)
(* (angle, strokeColor, fillStyle, roughness, opacity, frameId, isDeleted,  *)
(* link, locked) are left out; roundness None is 0.                         *)
create_base_element(w, element_type, x, y, width, height, element_id) ==
    LET g == IF element_id = None THEN generate_id(w, "element")
                                  ELSE [w |-> w, r |-> element_id]
        c == g.w.element_counter
        e == [id |-> g.r, type |-> element_type,
              x |-> x, y |-> y, width |-> width, height |-> height,
              backgroundColor |-> TRANSPARENT,
              strokeWidth |-> 2, strokeStyle |-> "solid",
              groupIds |-> IF w.current_group_id # None
                           THEN <<w.current_group_id>> ELSE <<>>,
              index |-> "a" \o ToString(c), roundness |-> 0,
              seed |-> c, versionNonce |-> c * 1000,
              boundElements |-> <<>>, updated |-> c]
    IN  [w |-> [g.w EXCEPT !.heap = Append(@, e)], r |-> Len(w.heap) + 1]

(* dict.update on the dict at address a *)
update(w, a, fields) == [w EXCEPT !.heap[a] = fields @@ @]

(* create_text_element; font_size = 0 stands for the default argument None *)
create_text_element(w, text, x, y, container_id, font_size) ==
    LET fs == IF font_size = 0 THEN default_text_size ELSE font_size
        char_width == fs * 6                    \* font_size * 0.6
        text_width == Len(text) * char_width
        text_height == fs * 12                  \* font_size * 1.2
        b == create_base_element(w, "text", x, y, text_width, text_height, None)
    IN  [w |-> update(b.w, b.r,
                 [text |-> text, fontSize |-> fs,
                  textAlign |-> IF container_id # None /\ container_id # ""
                                THEN "center" ELSE "left",
                  verticalAlign |-> IF container_id # None /\ container_id # ""
                                    THEN "middle" ELSE "top",
                  containerId |-> container_id]),
         r |-> b.r]

(* An optional number or palette left at None is NoArg, a given one is <<value>>. *)
NoArg == <<>>

(* A text binding that names the shape itself instead of its text. *)
bind_text_own_id(w, shape, text_element) ==
    [w EXCEPT !.heap[shape].boundElements =
                  Append(@, [type |-> "text", id |-> w.heap[shape].id])]

(* Lines 241-245 and 286-290: the shape gets a bound entry for its text. *)
bind_text(w, shape, text_element) ==
    [w EXCEPT !.heap[shape].boundElements =
                  Append(@, [type |-> "text", id |-> w.heap[text_element].id])]

(* The body create_rectangle and create_ellipse share: they differ in the  *)
(* id prefix, the element type and the roundness tag.                      *)
create_shape(w, prefix, element_type, round, x, y, width, height, text, background_color) ==
    LET wd == IF width = NoArg THEN default_element_width ELSE width[1]
        ht == IF height = NoArg THEN default_element_height ELSE height[1]
        bg == IF background_color = None THEN TRANSPARENT ELSE background_color
        g == generate_id(w, prefix)
        b == create_base_element(g.w, element_type, x, y, wd, ht, g.r)
        w1 == update(b.w, b.r, [backgroundColor |-> bg, roundness |-> round])
    IN  IF text # None /\ text # ""
        THEN LET text_x == x + wd \div 2 - Len(text) * default_text_size * 3
                 text_y == y + ht \div 2 - (default_text_size * Scale) \div 2
                 t == create_text_element(w1, text, text_x, text_y, g.r, 0)
                 w2 == bind_text(t.w, b.r, t.r)
             IN  [w |-> [w2 EXCEPT !.labelled = @ \cup {<<b.r, t.r>>}],
                  r |-> <<b.r, t.r>>]
        ELSE [w |-> w1, r |-> <<b.r, NoneRef>>]

create_rectangle(w, x, y, width, height, text, background_color) ==
    create_shape(w, "rect", "rectangle", 3, x, y, width, height, text, background_color)

create_ellipse(w, x, y, width, height, text, background_color) ==
    create_shape(w, "ellipse", "ellipse", 2, x, y, width, height, text, background_color)

---------------------------------------------------------------------------
(* create_arrow.  The lookup loop keeps the last entry whose id matches,   *)
(* and tests the end id only in the elif branch, so an entry matching the  *)
(* start id is never taken as the end element.  A None entry of the list   *)
(* makes element["id"] raise TypeError.  NoPos stands for a position       *)
(* argument left at None.                                                  *)
NoPos == <<>>

(* A width or height that keeps the sign of the difference. *)
Abs_signed(n) == n

Abs(n) == IF n < 0 THEN -n ELSE n

(* The entry the lookup loop ends with: the last of the matching ones, 0 *)
(* when there is none.                                                  *)
LastMatch(hits) ==
    IF hits = {} THEN 0 ELSE CHOOSE i \in hits : \A j \in hits : j <= i

find_start(w, start_element_id) ==
    LET k == LastMatch({i \in 1..Len(w.elements) :
                           w.heap[w.elements[i]].id = start_element_id})
    IN  IF k = 0 THEN NoneRef ELSE w.elements[k]

(* A lookup that takes the start element as the end element too. *)
find_end_is_start(w, start_element_id, end_element_id) ==
    find_start(w, start_element_id)

find_end(w, start_element_id, end_element_id) ==
    LET k == LastMatch({i \in 1..Len(w.elements) :
                           /\ w.heap[w.elements[i]].id # start_element_id
                           /\ w.heap[w.elements[i]].id = end_element_id})
    IN  IF k = 0 THEN NoneRef ELSE w.elements[k]

(* A start point taken at the left edge of the start element. *)
default_start_pos_left_edge(S) == <<S.x, S.y + S.height \div 2>>

(* An end point taken at the right edge of the end element. *)
default_end_pos_right_edge(E) == <<E.x + E.width, E.y + E.height \div 2>>

(* The connection points taken when none is given (lines 325-335):       *)
(* right-middle of the start element, left-middle of the end element.    *)
default_start_pos(S) == <<S.x + S.width, S.y + S.height \div 2>>
default_end_pos(E) == <<E.x, E.y + E.height \div 2>>

create_arrow(w, start_element_id, end_element_id, start_pos, end_pos, style, width) ==
    IF \E i \in 1..Len(w.elements) : w.elements[i] = NoneRef
    THEN [w |-> w, r |-> NoneRef, err |-> "TypeError"]
    ELSE
    LET s == find_start(w, start_element_id)
        e == find_end(w, start_element_id, end_element_id)
    IN  IF s = NoneRef \/ e = NoneRef
        THEN [w |-> w, r |-> NoneRef, err |-> "ValueError"]
        ELSE
        LET S == w.heap[s]
            E == w.heap[e]
            sp == IF start_pos = NoPos THEN default_start_pos(S) ELSE start_pos
            ep == IF end_pos = NoPos THEN default_end_pos(E) ELSE end_pos
            arrow_width == ep[1] - sp[1]
            arrow_height == ep[2] - sp[2]
            g == generate_id(w, "arrow")
            b == create_base_element(g.w, "arrow", sp[1], sp[2],
                                     Abs(arrow_width), Abs(arrow_height), g.r)
            w1 == update(b.w, b.r,
                    [strokeStyle |-> style, strokeWidth |-> width, roundness |-> 2,
                     startBinding |-> [elementId |-> start_element_id, focus |-> 0, gap |-> 1],
                     endBinding |-> [elementId |-> end_element_id, focus |-> 0, gap |-> 1],
                     endArrowhead |-> "arrow",
                     points |-> << <<0, 0>>, <<arrow_width, arrow_height>> >>])
            entry == [id |-> g.r, type |-> "arrow"]
            w2 == [w1 EXCEPT !.heap[s].boundElements = Append(@, entry)]
            w3 == [w2 EXCEPT !.heap[e].boundElements = Append(@, entry)]
        IN  [w |-> w3, r |-> b.r, err |-> NoError]

(* A start_group that keeps the group that is active, when there is one. *)
start_group_keeping_active(w, group_name) ==
    LET g == generate_group_id(w)
        group_id == IF group_name # None /\ group_name # ""
                    THEN group_name \o "-" \o g.r ELSE g.r
    IN  [w |-> [g.w EXCEPT !.current_group_id =
                    IF w.current_group_id # None THEN w.current_group_id ELSE group_id],
         r |-> group_id]

(* start_group, end_group, add_element, clear *)
start_group(w, group_name) ==
    LET g == generate_group_id(w)
        group_id == IF group_name # None /\ group_name # ""
                    THEN group_name \o "-" \o g.r ELSE g.r
    IN  [w |-> [g.w EXCEPT !.current_group_id = group_id], r |-> group_id]

end_group(w) == [w EXCEPT !.current_group_id = None]

add_element(w, element) == [w EXCEPT !.elements = Append(@, element)]

clear(w) ==
    [w EXCEPT !.elements = <<>>, !.element_counter = 0,
              !.group_counter = 0, !.current_group_id = None]

(* generate_excalidraw_json (lines 598-620): a dict built from literals   *)
(* and self.elements.  The appState literal keeps the entries that depend *)
(* on nothing; source is the fixed URL.                                   *)
appState ==
    [gridSize |-> 20, viewBackgroundColor |-> "#ffffff",
     currentItemFontFamily |-> 5, currentItemFontSize |-> 16,
     currentItemStrokeColor |-> "#1e1e1e",
     currentItemBackgroundColor |-> "transparent",
     currentItemFillStyle |-> "solid", currentItemStrokeWidth |-> 2,
     currentItemStrokeStyle |-> "solid", currentItemRoughness |-> 1,
     currentItemOpacity |-> 100, currentItemTextAlign |-> "left",
     currentItemStartArrowhead |-> None, currentItemEndArrowhead |-> "arrow"]

(* A generate_excalidraw_json that hands the elements over and empties    *)
(* the list.                                                              *)
generate_excalidraw_json_draining(w) ==
    [w |-> [w EXCEPT !.elements = <<>>],
     r |-> [type |-> "excalidraw", version |-> 2,
            source |-> "https://github.com/your-username/excalidraw-agent",
            elements |-> w.elements, appState |-> appState, files |-> {}]]

generate_excalidraw_json(w) ==
    [w |-> w,
     r |-> [type |-> "excalidraw", version |-> 2,
            source |-> "https://github.com/your-username/excalidraw-agent",
            elements |-> w.elements, appState |-> appState, files |-> {}]]

---------------------------------------------------------------------------
(* Python's "x in list" and "list.remove(x)" on dicts compare by value. *)
Contains(w, a) ==
    \E k \in 1..Len(w.elements) :
        /\ w.elements[k] # NoneRef
        /\ w.heap[w.elements[k]] = w.heap[a]

RemoveAt(s, k) == SubSeq(s, 1, k - 1) \o SubSeq(s, k + 1, Len(s))

remove(w, a) ==
    LET k == CHOOSE i \in 1..Len(w.elements) :
                 /\ w.elements[i] # NoneRef
                 /\ w.heap[w.elements[i]] = w.heap[a]
                 /\ \A j \in 1..(i - 1) :
                        \/ w.elements[j] = NoneRef
                        \/ w.heap[w.elements[j]] # w.heap[a]
    IN  [w EXCEPT !.elements = RemoveAt(@, k)]

(* The list a layout returns: a shape, then its text when it has one. *)
WithText(pair) == IF pair[2] # NoneRef THEN <<pair[1], pair[2]>> ELSE <<pair[1]>>

(* Python runs the statements of a method once each and in order:         *)
(* Let(v, Body) is Body applied to the value of v, worked out once.       *)
Let(v, Body(_)) == CHOOSE r \in {Body(x) : x \in {v}} : TRUE

(* create_sequential_layout, first pass (lines 431-448), its first n      *)
(* iterations: item i (from 1) gets colors[(i-1) % len(colors)], an empty  *)
(* palette divides by zero; current_x advances by width + spacing_x.       *)
RECURSIVE sequential_first_pass(_, _, _, _, _, _, _)
sequential_first_pass(w, items, n, start_x, current_y, item_type, colors) ==
    IF n = 0
    THEN [w |-> w, elements |-> <<>>, shapes |-> <<>>, err |-> NoError]
    ELSE
    Let(sequential_first_pass(w, items, n - 1, start_x, current_y, item_type, colors),
        LAMBDA p :
        IF p.err # NoError
        THEN p
        ELSE IF Len(colors) = 0
        THEN [w |-> p.w, elements |-> p.elements, shapes |-> p.shapes,
              err |-> "ZeroDivisionError"]
        ELSE
        LET color == colors[((n - 1) % Len(colors)) + 1]
            current_x == start_x + (n - 1) * (default_element_width + default_spacing_x)
        IN  Let(IF item_type = "rectangle"
                THEN create_rectangle(p.w, current_x, current_y, NoArg, NoArg, items[n], color)
                ELSE create_ellipse(p.w, current_x, current_y, NoArg, NoArg, items[n], color),
                LAMBDA o :
                [w |-> o.w, elements |-> p.elements \o WithText(o.r),
                 shapes |-> Append(p.shapes, o.r[1]), err |-> NoError]))

(* create_sequential_layout, second pass (lines 451-465), its first n     *)
(* iterations: shapes n and n+1 are put in self.elements for the lookup of *)
(* create_arrow and taken out again; an exception of create_arrow leaves   *)
(* them in.                                                                *)
temporarily_add(w, shape) == IF ~Contains(w, shape) THEN add_element(w, shape) ELSE w
remove_temporarily_added(w, shape) == IF Contains(w, shape) THEN remove(w, shape) ELSE w

RECURSIVE sequential_second_pass(_, _, _, _)
sequential_second_pass(w, shapes, n, elems) ==
    IF n = 0
    THEN [w |-> w, r |-> elems, err |-> NoError]
    ELSE
    Let(sequential_second_pass(w, shapes, n - 1, elems), LAMBDA p :
        IF p.err # NoError
        THEN p
        ELSE
        Let(temporarily_add(temporarily_add(p.w, shapes[n]), shapes[n + 1]), LAMBDA w2 :
        Let(create_arrow(w2, w2.heap[shapes[n]].id, w2.heap[shapes[n + 1]].id,
                         NoPos, NoPos, "solid", 2), LAMBDA o :
            IF o.err # NoError
            THEN [w |-> o.w, r |-> <<>>, err |-> o.err]
            ELSE [w |-> remove_temporarily_added(
                            remove_temporarily_added(o.w, shapes[n]), shapes[n + 1]),
                  r |-> Append(p.r, o.r), err |-> NoError])))

(* create_sequential_layout: an empty palette argument is the default     *)
(* [ColorScheme.LLM].                                                     *)
create_sequential_layout(w, items, start_x, start_y, item_type, colors) ==
    Let(sequential_first_pass(w, items, Len(items), start_x, start_y, item_type,
                              IF colors = NoArg THEN <<LLM>> ELSE colors[1]),
        LAMBDA p :
        IF p.err # NoError
        THEN [w |-> p.w, r |-> <<>>, err |-> p.err]
        ELSE sequential_second_pass(p.w, p.shapes,
                 IF Len(p.shapes) = 0 THEN 0 ELSE Len(p.shapes) - 1, p.elements))

(* math.cos and math.sin of i * (2 * pi / count) for i = 0..count-1, in   *)
(* units of 1/100000, for the counts the model uses.                      *)
CosTable ==
    << <<100000>>, <<100000, -100000>>, <<100000, -50000, -50000>>,
       <<100000, 0, -100000, 0>>, <<100000, 30902, -80902, -80902, 30902>>,
       <<100000, 50000, -50000, -100000, -50000, 50000>> >>
SinTable ==
    << <<0>>, <<0, 0>>, <<0, 86603, -86603>>,
       <<0, 100000, 0, -100000>>, <<0, 95106, 58779, -58779, -95106>>,
       <<0, 86603, 86603, 0, -86603, -86603>> >>

(* radius * cos(angle), rounded to the model's unit *)
Times(radius, trig) == (radius * trig + 50000) \div 100000

(* The shape and its text (None for an empty label) go into self.elements *)
add_pair(w, pair) == add_element(add_element(w, pair[1]), pair[2])

(* create_routing_layout, the loop over the destinations (lines 504-519), *)
(* its first n iterations                                                 *)
RECURSIVE routing_destinations(_, _, _, _, _, _, _, _)
routing_destinations(w, router, destinations, n, start_x, start_y, dest_colors, elems) ==
    IF n = 0
    THEN [w |-> w, r |-> elems, err |-> NoError]
    ELSE
    Let(routing_destinations(w, router, destinations, n - 1, start_x, start_y,
                             dest_colors, elems), LAMBDA p :
        IF p.err # NoError
        THEN p
        ELSE IF Len(dest_colors) = 0
        THEN [w |-> p.w, r |-> <<>>, err |-> "ZeroDivisionError"]
        ELSE
        LET count == Len(destinations)
            radius == (default_spacing_x * 15) \div 10           \* spacing * 1.5
            dest_x == start_x + Times(radius, CosTable[count][n])
            dest_y == start_y + Times(radius, SinTable[count][n])
            color == dest_colors[((n - 1) % Len(dest_colors)) + 1]
        IN  Let(create_rectangle(p.w, dest_x, dest_y, NoArg, NoArg, destinations[n], color),
                LAMBDA d :
            Let(add_pair(d.w, d.r), LAMBDA w1 :
            Let(create_arrow(w1, w1.heap[router].id, w1.heap[d.r[1]].id,
                             NoPos, NoPos, "solid", 2), LAMBDA o :
                IF o.err # NoError
                THEN [w |-> o.w, r |-> <<>>, err |-> o.err]
                ELSE [w |-> o.w, r |-> p.r \o <<d.r[1], d.r[2], o.r>>,
                      err |-> NoError]))))

(* create_routing_layout: the router and its text (None for an empty      *)
(* label) go into the returned list and into self.elements; the angle     *)
(* step divides by len(destinations).                                     *)
create_routing_layout(w, router_name, destinations, start_x, start_y, router_color, dest_colors) ==
    Let(create_rectangle(w, start_x, start_y, NoArg, NoArg, router_name,
                         IF router_color = None THEN CODE ELSE router_color), LAMBDA o :
    Let(add_pair(o.w, o.r), LAMBDA w1 :
        IF Len(destinations) = 0
        THEN [w |-> w1, r |-> <<>>, err |-> "ZeroDivisionError"]
        ELSE routing_destinations(w1, o.r[1], destinations, Len(destinations),
                                  start_x, start_y,
                                  IF dest_colors = NoArg THEN <<LLM>> ELSE dest_colors[1],
                                  <<o.r[1], o.r[2]>>)))

(* An item_y whose len(parallel_items) / 2 is the floor division. *)
item_y_half_rounded_down(start_y, i, parallel_items) ==
    start_y + (i - Len(parallel_items) \div 2) * default_spacing_y

(* item_y (line 557): start_y + (i - len(parallel_items) / 2) * spacing_y  *)
(* with i counted from 0; the half of an odd length times the spacing is   *)
(* a whole number of fixed-point units.                                    *)
item_y_of(start_y, i, parallel_items) ==
    start_y + ((2 * i - Len(parallel_items)) * default_spacing_y) \div 2

(* create_parallel_layout, the loop over the parallel items (lines        *)
(* 556-570), its first n iterations                                        *)
RECURSIVE parallel_items_loop(_, _, _, _, _, _, _, _)
parallel_items_loop(w, input_elem, parallel_items, n, parallel_x, start_y, colors, elems) ==
    IF n = 0
    THEN [w |-> w, r |-> elems, parallel_elements |-> <<>>, err |-> NoError]
    ELSE
    Let(parallel_items_loop(w, input_elem, parallel_items, n - 1, parallel_x,
                            start_y, colors, elems), LAMBDA p :
        IF p.err # NoError
        THEN p
        ELSE IF Len(colors) = 0
        THEN [w |-> p.w, r |-> <<>>, parallel_elements |-> <<>>, err |-> "ZeroDivisionError"]
        ELSE
        LET item_y == item_y_of(start_y, n - 1, parallel_items)
            color == colors[((n - 1) % Len(colors)) + 1]
        IN  Let(create_rectangle(p.w, parallel_x, item_y, NoArg, NoArg, parallel_items[n], color),
                LAMBDA d :
            Let(add_pair(d.w, d.r), LAMBDA w1 :
            Let(create_arrow(w1, w1.heap[input_elem].id, w1.heap[d.r[1]].id,
                             NoPos, NoPos, "solid", 2), LAMBDA o :
                IF o.err # NoError
                THEN [w |-> o.w, r |-> <<>>, parallel_elements |-> <<>>, err |-> o.err]
                ELSE [w |-> o.w, r |-> p.r \o <<d.r[1], d.r[2], o.r>>,
                      parallel_elements |-> Append(p.parallel_elements, d.r[1]),
                      err |-> NoError]))))

(* create_parallel_layout, the arrows to the output (lines 582-584), the  *)
(* first n of them                                                        *)
RECURSIVE parallel_output_arrows(_, _, _, _, _)
parallel_output_arrows(w, parallel_elements, output_elem, n, elems) ==
    IF n = 0
    THEN [w |-> w, r |-> elems, err |-> NoError]
    ELSE
    Let(parallel_output_arrows(w, parallel_elements, output_elem, n - 1, elems), LAMBDA p :
        IF p.err # NoError
        THEN p
        ELSE
        Let(create_arrow(p.w, p.w.heap[parallel_elements[n]].id,
                         p.w.heap[output_elem].id, NoPos, NoPos, "solid", 2), LAMBDA o :
            IF o.err # NoError
            THEN [w |-> o.w, r |-> <<>>, err |-> o.err]
            ELSE [w |-> o.w, r |-> Append(p.r, o.r), err |-> NoError]))

create_parallel_layout(w, input_name, parallel_items, output_name, start_x, start_y, colors) ==
    LET parallel_x == start_x + default_spacing_x * 2
        output_x == parallel_x + default_spacing_x * 2
    IN  Let(create_ellipse(w, start_x, start_y, NoArg, NoArg, input_name, TRANSPARENT),
            LAMBDA a :
        Let(parallel_items_loop(add_pair(a.w, a.r), a.r[1], parallel_items,
                                Len(parallel_items), parallel_x, start_y,
                                IF colors = NoArg THEN <<LLM, CODE>> ELSE colors[1],
                                <<a.r[1], a.r[2]>>), LAMBDA l :
            IF l.err # NoError
            THEN [w |-> l.w, r |-> <<>>, err |-> l.err]
            ELSE
            Let(create_ellipse(l.w, output_x, start_y, NoArg, NoArg, output_name, TRANSPARENT),
                LAMBDA b :
                parallel_output_arrows(add_pair(b.w, b.r), l.parallel_elements, b.r[1],
                                       Len(l.parallel_elements),
                                       l.r \o <<b.r[1], b.r[2]>>))))

(* create_flowchart_from_description (lines 642-677).  A description is a  *)
(* sequence of characters; str.lower maps the letters A-Z to a-z and keeps *)
(* every other character; "k in description" is true when k occurs as a    *)
(* contiguous run.                                                         *)
UpperCase == <<"A", "B", "C", "D", "E", "F", "G", "H", "I", "J", "K", "L", "M", "N", "O", "P", "Q", "R", "S", "T", "U", "V", "W", "X", "Y", "Z">>
LowerCase == <<"a", "b", "c", "d", "e", "f", "g", "h", "i", "j", "k", "l", "m", "n", "o", "p", "q", "r", "s", "t", "u", "v", "w", "x", "y", "z">>

(* A str.lower that leaves the text as it is. *)
lower_unchanged(description) == description

lower(description) ==
    [i \in 1..Len(description) |->
        IF \E k \in 1..Len(UpperCase) : UpperCase[k] = description[i]
        THEN LowerCase[CHOOSE k \in 1..Len(UpperCase) : UpperCase[k] = description[i]]
        ELSE description[i]]

In(keyword, description) ==
    \E i \in 1..(Len(description) - Len(keyword) + 1) :
        SubSeq(description, i, i + Len(keyword) - 1) = keyword

KwSequential == <<"s", "e", "q", "u", "e", "n", "t", "i", "a", "l">>
KwChain == <<"c", "h", "a", "i", "n">>
KwRouting == <<"r", "o", "u", "t", "i", "n", "g">>
KwRouter == <<"r", "o", "u", "t", "e", "r">>
KwParallel == <<"p", "a", "r", "a", "l", "l", "e", "l">>

create_flowchart_from_description(w, description) ==
    Let(lower(description), LAMBDA d :
        IF In(KwSequential, d) \/ In(KwChain, d)
        THEN create_sequential_layout(w, <<"Step 1", "Step 2", "Step 3", "Step 4">>,
                                      50 * Scale, 50 * Scale, "rectangle", NoArg)
        ELSE IF In(KwRouting, d) \/ In(KwRouter, d)
        THEN create_routing_layout(w, "Router", <<"LLM1", "LLM2", "LLM3">>,
                                   50 * Scale, 150 * Scale, None, NoArg)
        ELSE IF In(KwParallel, d)
        THEN create_parallel_layout(w, "Input", <<"Process A", "Process B", "Process C">>,
                                    "Output", 50 * Scale, 300 * Scale, NoArg)
        ELSE create_sequential_layout(w, <<"Input", "Process", "Output">>,
                                      50 * Scale, 50 * Scale, "rectangle", NoArg))

(* A loop over the returned elements that adds none of them. *)
add_all_skipped(w, list) == w

(* for elem in returned: agent.add_element(elem), the appends of the loop *)
(* taken together                                                        *)
add_all(w, list) == [w EXCEPT !.elements = @ \o list]

(* create_agent_framework_diagram: builds its own agent; a layout that    *)
(* raises ends the function with the agent as it then is.                *)
DemoSequential(w) ==
    Let(start_group(w, "sequential"), LAMBDA g :
    Let(create_text_element(g.w, "1. Sequential", 50 * Scale, 60 * Scale, None, 18), LAMBDA t :
    Let(create_sequential_layout(add_element(t.w, t.r),
            <<"Input", "LLM1", "LLM2", "LLM3", "Output">>, 50 * Scale, 80 * Scale,
            "rectangle", <<<<TRANSPARENT, LLM, LLM, LLM, TRANSPARENT>>>>), LAMBDA l :
        IF l.err # NoError THEN [w |-> l.w, err |-> l.err]
        ELSE [w |-> end_group(add_all(l.w, l.r)), err |-> NoError])))

DemoRouting(w) ==
    Let(start_group(w, "routing"), LAMBDA g :
    Let(create_text_element(g.w, "2. Routing", 50 * Scale, 180 * Scale, None, 18), LAMBDA t :
    Let(create_routing_layout(add_element(t.w, t.r), "Router",
            <<"LLM1", "LLM2", "LLM3">>, 150 * Scale, 220 * Scale, None, NoArg), LAMBDA l :
        IF l.err # NoError THEN [w |-> l.w, err |-> l.err]
        ELSE [w |-> end_group(add_all(l.w, l.r)), err |-> NoError])))

DemoParallel(w) ==
    Let(start_group(w, "parallel"), LAMBDA g :
    Let(create_text_element(g.w, "3. Parallel", 50 * Scale, 400 * Scale, None, 18), LAMBDA t :
    Let(create_parallel_layout(add_element(t.w, t.r), "Input",
            <<"LLM1", "LLM2", "LLM3">>, "Output", 50 * Scale, 440 * Scale, NoArg), LAMBDA l :
        IF l.err # NoError THEN [w |-> l.w, err |-> l.err]
        ELSE [w |-> end_group(add_all(l.w, l.r)), err |-> NoError])))

create_agent_framework_diagram ==
    Let(create_text_element(NewAgent, "Agent Framework Patterns",
                            50 * Scale, 20 * Scale, None, 24), LAMBDA t :
    Let(DemoSequential(add_element(t.w, t.r)), LAMBDA s :
        IF s.err # NoError
        THEN s
        ELSE Let(DemoRouting(s.w), LAMBDA r :
                 IF r.err # NoError THEN r ELSE DemoParallel(r.w))))

---------------------------------------------------------------------------
(* DrivingTestMonitor (src/Melody/driving_test_app/monitor_core.py) and    *)
(* the GUI thread that stops it (app_gui.py).  start() is a coroutine: the *)
(* event loop of the monitor thread runs one task at a time and changes    *)
(* task only at an await; the GUI thread runs between any two statements.  *)
(* A task's pc names the line of start() it executes next.                 *)
Tasks == 1..MaxTasks

agentVars == <<heap, elements, element_counter, group_counter, current_group_id,
               labelled, call, ret, err, calls, other>>

(* self.monitor = None (app_gui.py line 26) *)
NoMonitor ==
    [constructed |-> FALSE, _running |-> FALSE, _stop_flag |-> FALSE,
     check_interval |-> 0, credentials |-> FALSE]

(* The locals of one invocation of start(), and what it did so far:        *)
(* browser is "none", "open", "closing" or "closed"; closes counts the      *)
(* calls of browser.close(); refreshes the calls of page.reload();          *)
(* notifications the calls of send_pushover_notification; absent_seen is    *)
(* set when page.content() came without the marker; error_seen when a      *)
(* check ended in the except clause; concurrent when the invocation was    *)
(* made while another one had not finished.                                *)
NewTask ==
    [pc |-> "idle", exit |-> "none", check_count |-> 0, slots_found |-> FALSE,
     waited |-> 0, browser |-> "none", closes |-> 0, refreshes |-> 0,
     notifications |-> 0, notified |-> "none", absent_seen |-> FALSE,
     error_seen |-> FALSE, last_check |-> "none", concurrent |-> FALSE,
     rejected |-> FALSE]

InProgress(u) == task[u].pc \notin {"idle", "done"}

CanRun(t) == hist.loop \in {0, t}

Step(t, fields, mon, h) ==
    /\ task' = [task EXCEPT ![t] = fields]
    /\ monitor' = mon
    /\ hist' = h
    /\ UNCHANGED agentVars

(* line 216 *)
already_running(mon) == mon._running

(* A test of the stop flag that never sees it set. *)
stop_requested_ignored(mon) == FALSE

(* lines 246, 264, 270: the value of self._stop_flag *)
stop_requested(mon) == mon._stop_flag

(* send_pushover_notification (lines 65-87): skipped without credentials,  *)
(* else the post is sent or fails; each outcome is a return, none raises.  *)
send_pushover_outcomes(mon) ==
    IF ~mon.credentials THEN {"skipped"} ELSE {"sent", "failed"}

(* A marker test that never misses the marker. *)
marker_absent_never(content) == FALSE

(* line 191: self.NO_SLOTS_TEXT not in content *)
marker_absent(content) == content = "no marker"

(* An except clause of check_for_slots that reports slots. *)
check_error_result_found == TRUE

(* lines 201-203: an exception in check_for_slots makes it return False *)
check_error_result == FALSE

(* lines 252-257 after a check that returned found_slots: the first find   *)
(* sets slots_found and leaves the loop for line 269, which then finds     *)
(* slots_found set (line 270); otherwise the wait of lines 260-266 begins. *)
AfterCheck(tk, found_slots) ==
    IF found_slots /\ ~tk.slots_found
    THEN [tk EXCEPT !.pc = "l270", !.slots_found = TRUE]
    ELSE [tk EXCEPT !.pc = "l263", !.waited = 0]

(* DrivingTestMonitor.__init__ (lines 44-55), called by the monitor thread *)
(* (app_gui.py line 267).                                                  *)
Construct ==
    /\ ~monitor.constructed
    /\ \E interval \in 1..MaxInterval, credentials \in BOOLEAN :
         monitor' = [constructed |-> TRUE, _running |-> FALSE, _stop_flag |-> FALSE,
                     check_interval |-> interval, credentials |-> credentials]
    /\ UNCHANGED <<task, hist, agentVars>>

(* start(), lines 216-218: a new invocation, rejected when _running is set *)
Start(t) ==
    /\ monitor.constructed
    /\ task[t].pc \in {"idle", "done"}
    /\ hist.loop = 0
    /\ hist.starts < MaxStarts
    /\ LET concurrent == \E u \in Tasks \ {t} : InProgress(u)
       IN  IF already_running(monitor)
           THEN Step(t, [NewTask EXCEPT !.pc = "done", !.exit = "returned",
                                        !.rejected = TRUE, !.concurrent = concurrent],
                     monitor, [hist EXCEPT !.starts = @ + 1])
           ELSE Step(t, [NewTask EXCEPT !.pc = "l220", !.concurrent = concurrent],
                     monitor, [hist EXCEPT !.starts = @ + 1, !.loop = t,
                                           !.stop_called = FALSE,
                                           !.refresh_after_stop = FALSE,
                                           !.stopped_after_found = FALSE])

(* line 220 *)
SetRunning(t) ==
    /\ task[t].pc = "l220" /\ CanRun(t)
    /\ Step(t, [task[t] EXCEPT !.pc = "l221"],
            [monitor EXCEPT !._running = TRUE], [hist EXCEPT !.loop = t])

(* line 221 *)
ClearStopFlag(t) ==
    /\ task[t].pc = "l221" /\ CanRun(t)
    /\ Step(t, [task[t] EXCEPT !.pc = "l223"],
            [monitor EXCEPT !._stop_flag = FALSE], [hist EXCEPT !.loop = t])

(* lines 223-230: async_playwright and chromium.launch give a browser and  *)
(* a page, or raise before there is a browser; the exception leaves start() *)
(* as these lines are outside the try statement.                           *)
Launch(t) ==
    /\ task[t].pc = "l223" /\ CanRun(t)
    /\ \E launched \in BOOLEAN :
         IF launched
         THEN Step(t, [task[t] EXCEPT !.pc = "l234", !.browser = "open"],
                   monitor, [hist EXCEPT !.loop = 0])
         ELSE Step(t, [task[t] EXCEPT !.pc = "done", !.exit = "raised"],
                   monitor, [hist EXCEPT !.loop = 0])

(* lines 234-236 and 243-244: initial_login returns True or False (it      *)
(* catches every exception, lines 176-178).                                *)
Login(t) ==
    /\ task[t].pc = "l234" /\ CanRun(t)
    /\ \E login_success \in BOOLEAN :
         Step(t, [task[t] EXCEPT !.pc = IF login_success THEN "l246" ELSE "l238",
                                 !.check_count = 0, !.slots_found = FALSE],
              monitor, [hist EXCEPT !.loop = 0])

(* lines 237-238 *)
LoginFailed(t) ==
    /\ task[t].pc = "l238" /\ CanRun(t)
    /\ Step(t, [task[t] EXCEPT !.pc = "l239"],
            [monitor EXCEPT !._running = FALSE], [hist EXCEPT !.loop = t])

(* lines 239 and 279: browser.close() is called and awaited; closing a     *)
(* browser that is closed already leaves it closed.                        *)
CloseCall(t) ==
    /\ task[t].pc \in {"l239", "l279"} /\ CanRun(t)
    /\ Step(t, [task[t] EXCEPT !.pc = IF @ = "l239" THEN "l239w" ELSE "l279w",
                               !.closes = @ + 1,
                               !.browser = IF @ = "open" THEN "closing" ELSE @],
            monitor, [hist EXCEPT !.loop = 0])

(* browser.close() is over.  After line 239 the return at line 240 runs    *)
(* the finally clause; after line 279 start() is left (line 280).          *)
CloseDone(t) ==
    /\ task[t].pc \in {"l239w", "l279w"} /\ CanRun(t)
    /\ IF task[t].pc = "l239w"
       THEN Step(t, [task[t] EXCEPT !.pc = "l278", !.exit = "returned",
                                    !.browser = "closed"],
                 monitor, [hist EXCEPT !.loop = t])
       ELSE Step(t, [task[t] EXCEPT !.pc = "done", !.browser = "closed"],
                 monitor, [hist EXCEPT !.loop = 0])

(* line 246: while not self._stop_flag; leaving the loop reaches line 269, *)
(* and with slots_found False line 273 and the finally clause.             *)
WhileNotStopped(t) ==
    /\ task[t].pc = "l246" /\ CanRun(t)
    /\ Step(t, [task[t] EXCEPT !.pc = IF stop_requested(monitor) THEN "l278" ELSE "l247",
                               !.exit = IF stop_requested(monitor) THEN "returned" ELSE @],
            monitor, [hist EXCEPT !.loop = t])

(* lines 247-250 and 183-185: check_count += 1 and page.reload(), which    *)
(* returns or raises; a raise ends check_for_slots in its except clause.   *)
Reload(t) ==
    /\ task[t].pc = "l247" /\ CanRun(t)
    /\ task[t].check_count < MaxChecks
    /\ \E reloaded \in BOOLEAN :
         LET tk == [task[t] EXCEPT !.check_count = @ + 1, !.refreshes = @ + 1,
                                   !.error_seen = @ \/ ~reloaded,
                                   !.last_check = IF reloaded THEN "reading" ELSE "error"]
         IN  Step(t, IF reloaded THEN [tk EXCEPT !.pc = "l188"]
                                 ELSE AfterCheck(tk, check_error_result),
                  monitor,
                  [hist EXCEPT !.loop = 0,
                               !.refresh_after_stop = @ \/ hist.stop_called])

(* lines 188-199: page.content() holds the marker, lacks it, or raises *)
Content(t) ==
    /\ task[t].pc = "l188" /\ CanRun(t)
    /\ \E content \in {"marker", "no marker", "error"} :
         LET tk == [task[t] EXCEPT !.absent_seen = @ \/ content = "no marker",
                                   !.error_seen = @ \/ content = "error",
                                   !.last_check = content]
         IN  Step(t, IF content = "error" THEN AfterCheck(tk, check_error_result)
                     ELSE IF marker_absent(content) THEN [tk EXCEPT !.pc = "l194"]
                     ELSE AfterCheck(tk, FALSE),
                  monitor, [hist EXCEPT !.loop = 0])

(* lines 192-196: the notification routine is called and awaited, whatever *)
(* it returns the check returns True.                                      *)
Notify(t) ==
    /\ task[t].pc = "l194" /\ CanRun(t)
    /\ \E outcome \in send_pushover_outcomes(monitor) :
         Step(t, AfterCheck([task[t] EXCEPT !.notifications = @ + 1,
                                            !.notified = outcome], TRUE),
              monitor, [hist EXCEPT !.loop = 0])

(* lines 263-265: the wait is over after check_interval sleeps, or as soon *)
(* as the stop flag is seen.                                               *)
WaitTest(t) ==
    /\ task[t].pc = "l263" /\ CanRun(t)
    /\ Step(t, [task[t] EXCEPT !.pc =
                    IF task[t].waited = monitor.check_interval \/ stop_requested(monitor)
                    THEN "l246" ELSE "l266"],
            monitor, [hist EXCEPT !.loop = t])

(* lines 266 and 271: asyncio.sleep(1).  Nothing cancels the task, and    *)
(* every call inside the try statement that can fail is made by            *)
(* initial_login or check_for_slots, which catch what it raises.           *)
Sleep(t) ==
    /\ task[t].pc \in {"l266", "l271"} /\ CanRun(t)
    /\ Step(t, [task[t] EXCEPT !.pc = IF @ = "l266" THEN "l263" ELSE "l270",
                               !.waited = IF task[t].pc = "l266" THEN @ + 1 ELSE @],
            monitor, [hist EXCEPT !.loop = 0])

(* lines 269-273: with slots found, wait until the stop flag is set *)
WaitForStop(t) ==
    /\ task[t].pc = "l270" /\ CanRun(t)
    /\ Step(t, [task[t] EXCEPT !.pc = IF stop_requested(monitor) THEN "l278" ELSE "l271",
                               !.exit = IF stop_requested(monitor) THEN "returned" ELSE @],
            monitor, [hist EXCEPT !.loop = t])

(* line 278 *)
Finally(t) ==
    /\ task[t].pc = "l278" /\ CanRun(t)
    /\ Step(t, [task[t] EXCEPT !.pc = "l279"],
            [monitor EXCEPT !._running = FALSE], [hist EXCEPT !.loop = t])

(* stop_monitoring (app_gui.py lines 322-329) on the GUI thread: stop()    *)
(* (lines 205-208) when is_running() returns True.                         *)
StopMonitoring ==
    /\ monitor.constructed
    /\ monitor._running
    /\ monitor' = [monitor EXCEPT !._stop_flag = TRUE]
    /\ hist' = [hist EXCEPT !.stop_called = TRUE,
                            !.stopped_after_found =
                                @ \/ \E t \in Tasks : InProgress(t) /\ task[t].slots_found]
    /\ UNCHANGED <<task, agentVars>>

TaskStep(t) ==
    \/ Start(t)
    \/ SetRunning(t)
    \/ ClearStopFlag(t)
    \/ Launch(t)
    \/ Login(t)
    \/ LoginFailed(t)
    \/ CloseCall(t)
    \/ CloseDone(t)
    \/ WhileNotStopped(t)
    \/ Reload(t)
    \/ Content(t)
    \/ Notify(t)
    \/ WaitTest(t)
    \/ Sleep(t)
    \/ WaitForStop(t)
    \/ Finally(t)

---------------------------------------------------------------------------
(* The caller's inputs. *)
Labels == {"", "A"}
Points == {<<50 * Scale, 50 * Scale>>, <<0, 300 * Scale>>}
Letter == <<"A", "B", "C", "D", "E", "F">>
MissingId == "rect-99"
SequentialStyles == {<<"rectangle", NoArg>>, <<"ellipse", <<<<TRANSPARENT, CODE>>>> >>}

(* Label lists of up to MaxItems labels: label i is its letter or empty. *)
ItemLists ==
    {[i \in 1..n |-> IF i \in E THEN "" ELSE Letter[i]] :
        n \in 0..MaxItems, E \in SUBSET (1..MaxItems)}

Addrs == 1..Len(heap)
HeapIds == {heap[a].id : a \in Addrs}

(* What a layout call found: the id counter and the element list. *)
Before == [counter |-> element_counter, elements |-> elements]

(* The state after a call: the world it left, what it returned or raised. *)
Finish(w, c, r, e) ==
    /\ heap' = w.heap
    /\ elements' = w.elements
    /\ element_counter' = w.element_counter
    /\ group_counter' = w.group_counter
    /\ current_group_id' = w.current_group_id
    /\ labelled' = w.labelled
    /\ call' = c
    /\ ret' = r
    /\ err' = e
    /\ UNCHANGED <<calls, other, monitor, task, hist>>

Init ==
    /\ heap = NewAgent.heap
    /\ elements = NewAgent.elements
    /\ element_counter = NewAgent.element_counter
    /\ group_counter = NewAgent.group_counter
    /\ current_group_id = NewAgent.current_group_id
    /\ labelled = NewAgent.labelled
    /\ call = [op |-> "init"]
    /\ ret = <<>>
    /\ err = NoError
    /\ calls = <<>>
    /\ other = [w |-> NewAgent, calls |-> <<>>, ret |-> <<>>]
    /\ monitor = NoMonitor
    /\ task = [t \in Tasks |-> NewTask]
    /\ hist = [loop |-> 0, starts |-> 0, stop_called |-> FALSE,
               refresh_after_stop |-> FALSE, stopped_after_found |-> FALSE]

CreateText ==
    /\ Len(heap) < MaxHeap
    /\ \E container_id \in {None, "rect-1"} :
         LET o == create_text_element(World, "A", 50 * Scale, 20 * Scale, container_id, 0)
         IN  Finish(o.w, [op |-> "create_text_element"], <<o.r>>, NoError)

CreateRectangle ==
    /\ Len(heap) < MaxHeap
    /\ \E text \in Labels :
         LET o == create_rectangle(World, 50 * Scale, 50 * Scale, NoArg, NoArg, text, None)
         IN  Finish(o.w, [op |-> "create_rectangle", text |-> text], o.r, NoError)

CreateEllipse ==
    /\ Len(heap) < MaxHeap
    /\ \E text \in Labels :
         LET o == create_ellipse(World, 400 * Scale, 0, <<80 * Scale>>, <<40 * Scale>>,
                                 text, CODE)
         IN  Finish(o.w, [op |-> "create_ellipse", text |-> text], o.r, NoError)

CreateArrow ==
    /\ Len(heap) < MaxHeap
    /\ \E s \in HeapIds, e \in HeapIds :
         LET o == create_arrow(World, s, e, NoPos, NoPos, "solid", 2)
         IN  Finish(o.w, [op |-> "create_arrow"], <<o.r>>, o.err)

AddElement ==
    /\ Len(elements) < MaxElems
    /\ \E a \in Addrs :
         Finish(add_element(World, a), [op |-> "add_element"], <<>>, NoError)

Sequential ==
    /\ Len(heap) < MaxPrior
    /\ \E items \in ItemLists, p \in Points, style \in SequentialStyles :
       \E o \in {create_sequential_layout(World, items, p[1], p[2], style[1], style[2])} :
             Finish(o.w, [op |-> "create_sequential_layout", before |-> Before, items |-> items,
                          start_x |-> p[1], start_y |-> p[2]],
                    o.r, o.err)

Routing ==
    /\ Len(heap) < MaxPrior
    /\ \E router_name \in Labels, destinations \in ItemLists, p \in {<<50 * Scale, 150 * Scale>>} :
       \E o \in {create_routing_layout(World, router_name, destinations, p[1], p[2],
                                        None, NoArg)} :
             Finish(o.w, [op |-> "create_routing_layout", before |-> Before, router_name |-> router_name,
                          items |-> destinations, start_x |-> p[1], start_y |-> p[2]],
                    o.r, o.err)

Parallel ==
    /\ Len(heap) < MaxPrior
    /\ \E input_name \in Labels, parallel_items \in ItemLists, output_name \in Labels,
          p \in Points :
       \E o \in {create_parallel_layout(World, input_name, parallel_items, output_name,
                                         p[1], p[2], NoArg)} :
             Finish(o.w, [op |-> "create_parallel_layout", before |-> Before, input_name |-> input_name,
                          items |-> parallel_items, output_name |-> output_name,
                          start_x |-> p[1], start_y |-> p[2]],
                    o.r, o.err)

(* The descriptions the caller gives. *)
DescParallelChain == <<"P", "a", "r", "a", "l", "l", "e", "l", " ", "C", "H", "A", "I", "N">>
DescSequential == <<"s", "e", "q", "u", "e", "n", "t", "i", "a", "l">>
DescARouter == <<"a", " ", "R", "o", "u", "t", "e", "r">>
DescRouting == <<"R", "O", "U", "T", "I", "N", "G">>
DescParallel == <<"p", "a", "r", "a", "l", "l", "e", "l">>
DescRouterParallel == <<"r", "o", "u", "t", "e", "r", " ", "i", "n", " ", "P", "A", "R", "A", "L", "L", "E", "L">>
DescFlow == <<"f", "l", "o", "w">>
DescEmpty == <<>>
DescBrokenChain == <<"c", "h", "a", "i", " ", "n">>
Descriptions ==
    {DescParallelChain,
     DescSequential,
     DescARouter,
     DescRouting,
     DescParallel,
     DescRouterParallel,
     DescFlow,
     DescEmpty,
     DescBrokenChain}

FromDescription ==
    /\ Len(heap) < MaxPrior
    /\ \E description \in Descriptions :
       \E o \in {create_flowchart_from_description(World, description)} :
             Finish(o.w, [op |-> "create_flowchart_from_description", before |-> Before,
                          description |-> description],
                    o.r, o.err)

(* The caller adds every element a layout returned, as                    *)
(* create_agent_framework_diagram does after each layout.                 *)
AddReturned ==
    /\ call.op \in {"create_sequential_layout", "create_routing_layout",
                    "create_parallel_layout"}
    /\ err = NoError
    /\ Finish(add_all(World, ret), [op |-> "add_returned"], <<>>, NoError)

Demo ==
    /\ call.op = "init"
    /\ \E o \in {create_agent_framework_diagram} :
           Finish(o.w, [op |-> "create_agent_framework_diagram"], <<>>, o.err)

GroupNames == {None, "g"}

StartGroup ==
    /\ group_counter < MaxGroups
    /\ \E group_name \in GroupNames :
         \E o \in {start_group(World, group_name)} :
             Finish(o.w, [op |-> "start_group"], <<o.r>>, NoError)

EndGroup ==
    Finish(end_group(World), [op |-> "end_group"], <<>>, NoError)

Clear ==
    Finish(clear(World), [op |-> "clear"], <<>>, NoError)

GenerateJson ==
    \E o \in {generate_excalidraw_json(World)} :
        Finish(o.w, [op |-> "generate_excalidraw_json"], <<o.r>>, NoError)

(* The element factories, the arrow binder and add_element. *)
Next ==
    \/ CreateText
    \/ CreateRectangle
    \/ CreateEllipse
    \/ CreateArrow
    \/ AddElement

Spec == Init /\ [][Next]_vars

(* The layouts, the caller that adds what a layout returned, and the demo. *)
NextLayout ==
    \/ Sequential
    \/ Routing
    \/ Parallel
    \/ AddReturned
    \/ Demo

SpecLayout == Init /\ [][NextLayout]_vars

(* Two agents of one process.  A call names its operation and arguments;  *)
(* an element argument is named by its position among the dicts the agent *)
(* has created, so that the same call can be made on either agent.        *)
TwinCalls ==
    {[op |-> "create_rectangle", text |-> t] : t \in Labels}
    \cup {[op |-> "create_text_element"]}
    \cup {[op |-> "add_element", element |-> a] : a \in 1..MaxElems}
    \cup {[op |-> "start_group", group_name |-> None]}
    \cup {[op |-> "clear"]}

CanCall(w, c) == c.op = "add_element" => c.element <= Len(w.heap)

CallOn(w, c) ==
    CASE c.op = "create_rectangle" ->
           LET o == create_rectangle(w, 50 * Scale, 50 * Scale, NoArg, NoArg, c.text, None)
           IN  [w |-> o.w, r |-> o.r]
      [] c.op = "create_text_element" ->
           LET o == create_text_element(w, "A", 50 * Scale, 20 * Scale, None, 0)
           IN  [w |-> o.w, r |-> <<o.r>>]
      [] c.op = "add_element" -> [w |-> add_element(w, c.element), r |-> <<>>]
      [] c.op = "start_group" ->
           LET o == start_group(w, c.group_name)
           IN  [w |-> o.w, r |-> <<o.r>>]
      [] c.op = "clear" -> [w |-> clear(w), r |-> <<>>]

CallFirst ==
    /\ Len(calls) < MaxCalls
    /\ \E c \in TwinCalls :
         /\ CanCall(World, c)
         /\ \E o \in {CallOn(World, c)} :
              /\ heap' = o.w.heap
              /\ elements' = o.w.elements
              /\ element_counter' = o.w.element_counter
              /\ group_counter' = o.w.group_counter
              /\ current_group_id' = o.w.current_group_id
              /\ labelled' = o.w.labelled
              /\ call' = c
              /\ ret' = o.r
              /\ err' = NoError
              /\ calls' = Append(calls, c)
              /\ other' = other
              /\ UNCHANGED <<monitor, task, hist>>

CallSecond ==
    /\ Len(other.calls) < MaxCalls
    /\ \E c \in TwinCalls :
         /\ CanCall(other.w, c)
         /\ \E o \in {CallOn(other.w, c)} :
              /\ other' = [w |-> o.w, calls |-> Append(other.calls, c), ret |-> o.r]
              /\ UNCHANGED <<heap, elements, element_counter, group_counter,
                             current_group_id, labelled, call, ret, err, calls,
                             monitor, task, hist>>

NextTwin == CallFirst \/ CallSecond

SpecTwin == Init /\ [][NextTwin]_vars

(* A caller that describes flowcharts, creates single elements and adds them. *)
NextDescribe ==
    \/ FromDescription
    \/ CreateText
    \/ CreateRectangle
    \/ AddElement

SpecDescribe == Init /\ [][NextDescribe]_vars

(* Every public operation of the agent. *)
NextOps ==
    /\ Len(heap) < MaxOpsHeap
    /\ \/ CreateText
       \/ CreateRectangle
       \/ CreateEllipse
       \/ CreateArrow
       \/ AddElement
       \/ StartGroup
       \/ EndGroup
       \/ Clear
       \/ GenerateJson

SpecOps == Init /\ [][NextOps]_vars

(* One monitor thread that calls start() again after it finished, and the  *)
(* GUI thread.                                                             *)
NextMonitor == Construct \/ StopMonitoring \/ TaskStep(1)

SpecMonitor == Init /\ [][NextMonitor]_vars

(* The monitor thread keeps running. *)
FairMonitor == SpecMonitor /\ WF_vars(TaskStep(1))

(* Several tasks of the event loop call start() on the one monitor. *)
NextMonitorTasks == Construct \/ StopMonitoring \/ \E t \in Tasks : TaskStep(t)

SpecMonitorTasks == Init /\ [][NextMonitorTasks]_vars

---------------------------------------------------------------------------
(* Properties of the factories and of the arrow binder, under Spec. *)

Listed == {k \in 1..Len(elements) : elements[k] # NoneRef}
ListIds == {heap[elements[k]].id : k \in Listed}
AddrOf(id) == CHOOSE a \in Addrs : heap[a].id = id
Has(seq, x) == \E i \in 1..Len(seq) : seq[i] = x
OfType(seq, t) == SelectSeq(seq, LAMBDA b : b.type = t)
Types == {heap[a].type : a \in Addrs}

(* C1: in a run of factory and create_arrow calls with no clear(), no two *)
(* elements the agent created have the same id.                           *)
C1_IdsUnique == \A a, b \in Addrs : a # b => heap[a].id # heap[b].id

C1_Witness ==
    /\ Types = {"text", "rectangle", "ellipse", "arrow"}
    /\ Len(heap) >= 4

(* C2: for any two ids present in the element list, the same id twice     *)
(* included, create_arrow returns an arrow bound to the given start and    *)
(* end ids, and every listed element with one of the two ids then holds    *)
(* an arrow entry for it.                                                  *)
C2_ArrowBindsPresentIds ==
    \A s, e \in ListIds :
        LET o == create_arrow(World, s, e, NoPos, NoPos, "solid", 2)
        IN  /\ o.err = NoError
            /\ o.w.heap[o.r].type = "arrow"
            /\ o.w.heap[o.r].startBinding.elementId = s
            /\ o.w.heap[o.r].endBinding.elementId = e
            /\ \A k \in Listed :
                   heap[elements[k]].id \in {s, e} =>
                       Has(o.w.heap[elements[k]].boundElements,
                           [id |-> o.w.heap[o.r].id, type |-> "arrow"])

(* C3: create_arrow with a start or end id that is not in the element     *)
(* list raises and leaves the agent and every element as they were, and   *)
(* the same call succeeds once the missing endpoints were added with      *)
(* add_element.                                                           *)
C3_MissingEndpointFailsCleanly ==
    \A s, e \in HeapIds \cup {MissingId} :
        (s \notin ListIds \/ e \notin ListIds) =>
            LET o == create_arrow(World, s, e, NoPos, NoPos, "solid", 2)
                w1 == IF s \notin ListIds THEN add_element(World, AddrOf(s)) ELSE World
                w2 == IF e \notin ListIds \cup {s} THEN add_element(w1, AddrOf(e)) ELSE w1
            IN  /\ o.err # NoError
                /\ o.w = World
                /\ {s, e} \subseteq HeapIds =>
                       create_arrow(w2, s, e, NoPos, NoPos, "solid", 2).err = NoError

(* C4: a shape created with a non-empty label holds, in every later state *)
(* and whatever arrows were bound to it, exactly one bound entry of type   *)
(* "text"; that entry names the text element returned with the shape, and  *)
(* that text's containerId is the shape's id.                              *)
C4_LabelBinding ==
    \A pair \in labelled :
        LET shape == heap[pair[1]]
            text == heap[pair[2]]
            entries == OfType(shape.boundElements, "text")
        IN  /\ shape.type \in {"rectangle", "ellipse"}
            /\ text.type = "text"
            /\ Len(entries) = 1
            /\ entries[1].id = text.id
            /\ text.containerId = shape.id

C4_Witness ==
    \E pair \in labelled :
        /\ Len(OfType(heap[pair[1]].boundElements, "arrow")) >= 2
        /\ heap[pair[1]].boundElements[1].type = "text"

---------------------------------------------------------------------------
(* Properties of the layouts and of the demo, under SpecLayout.  They     *)
(* read the state a call left: call holds its arguments and what it       *)
(* found, ret the list it returned, err what it raised.                   *)

LayoutOps == {"create_sequential_layout", "create_routing_layout", "create_parallel_layout"}
NonEmpty(items) == \A i \in 1..Len(items) : items[i] # ""
Produced == SelectSeq(ret, LAMBDA a : a # NoneRef)
RetShapes == SelectSeq(Produced, LAMBDA a : heap[a].type \in {"rectangle", "ellipse"})
RetTexts == SelectSeq(Produced, LAMBDA a : heap[a].type = "text")
RetArrows == SelectSeq(Produced, LAMBDA a : heap[a].type = "arrow")
PositionsOf(a) == {k \in 1..Len(elements) : elements[k] = a}
ArrowEntry(a) == [id |-> heap[a].id, type |-> "arrow"]
Joins(a, from, to) ==
    /\ heap[a].startBinding.elementId = heap[from].id
    /\ heap[a].endBinding.elementId = heap[to].id

(* C5: when a layout returns, every element of its returned list is in    *)
(* the agent's element list, appended by the call, in creation order.     *)
C5_LayoutAppendsProduced ==
    (call.op \in LayoutOps /\ err = NoError) =>
        /\ \A i \in 1..Len(Produced) :
               \E k \in PositionsOf(Produced[i]) : k > Len(call.before.elements)
        /\ \A i, j \in 1..Len(Produced) :
               Produced[i] < Produced[j] =>
                   \E ki \in PositionsOf(Produced[i]), kj \in PositionsOf(Produced[j]) :
                       ki < kj

(* C6: in the document create_agent_framework_diagram builds, no two      *)
(* entries of the element list have the same id, and the list has as many *)
(* entries as ids were issued.                                            *)
C6_DemoIdsUnique ==
    call.op = "create_agent_framework_diagram" =>
        /\ err = NoError
        /\ \A i, j \in Listed : i # j => heap[elements[i]].id # heap[elements[j]].id
        /\ Len(elements) = element_counter

(* C7: create_sequential_layout with n non-empty labels returns n shapes, *)
(* n texts and n-1 arrows, the i-th arrow from the i-th shape to the      *)
(* (i+1)-th; with no label it returns the empty list and issues no id;    *)
(* with one label it returns the shape and its text.                      *)
C7_SequentialCounts ==
    (call.op = "create_sequential_layout" /\ NonEmpty(call.items)) =>
        LET n == Len(call.items)
        IN  /\ err = NoError
            /\ Len(RetShapes) = n
            /\ Len(RetTexts) = n
            /\ Len(RetArrows) = IF n = 0 THEN 0 ELSE n - 1
            /\ Len(ret) = Len(RetShapes) + Len(RetTexts) + Len(RetArrows)
            /\ \A i \in 1..(n - 1) : Joins(RetArrows[i], RetShapes[i], RetShapes[i + 1])
            /\ n = 0 => ret = <<>> /\ element_counter = call.before.counter
            /\ n = 1 => /\ ret = <<RetShapes[1], RetTexts[1]>>
                        /\ <<RetShapes[1], RetTexts[1]>> \in labelled

(* C8: create_routing_layout with a labelled router and k >= 1 non-empty  *)
(* destination labels returns k arrows, the i-th from the router to the   *)
(* i-th destination; the router then holds its text entry followed by the *)
(* k arrow entries, and each destination holds exactly one arrow entry.   *)
C8_RoutingArrows ==
    (/\ call.op = "create_routing_layout"
     /\ call.router_name # ""
     /\ Len(call.items) >= 1
     /\ NonEmpty(call.items)) =>
        LET k == Len(call.items)
        IN  /\ err = NoError
            /\ Len(RetArrows) = k
            /\ Len(RetShapes) = k + 1
            /\ \A i \in 1..k : Joins(RetArrows[i], RetShapes[1], RetShapes[i + 1])
            /\ heap[RetShapes[1]].boundElements =
                   <<[type |-> "text", id |-> heap[RetTexts[1]].id]>>
                   \o [i \in 1..k |-> ArrowEntry(RetArrows[i])]
            /\ \A i \in 1..k :
                   OfType(heap[RetShapes[i + 1]].boundElements, "arrow")
                       = <<ArrowEntry(RetArrows[i])>>

(* C9: create_parallel_layout with m non-empty item labels returns 2m     *)
(* arrows, for each item one from the input to it and one from it to the  *)
(* output; input and output are at start_y, the output at                 *)
(* start_x + 4 * spacing_x.                                               *)
C9_ParallelArrows ==
    (call.op = "create_parallel_layout" /\ NonEmpty(call.items)) =>
        LET m == Len(call.items)
            input == RetShapes[1]
            output == RetShapes[m + 2]
            From(i) == {j \in 1..Len(RetArrows) : Joins(RetArrows[j], input, RetShapes[i + 1])}
            To(i) == {j \in 1..Len(RetArrows) : Joins(RetArrows[j], RetShapes[i + 1], output)}
        IN  /\ err = NoError
            /\ Len(RetArrows) = 2 * m
            /\ Len(RetShapes) = m + 2
            /\ \A i \in 1..m : Cardinality(From(i)) = 1 /\ Cardinality(To(i)) = 1
            /\ heap[input].type = "ellipse" /\ heap[output].type = "ellipse"
            /\ heap[input].y = call.start_y
            /\ heap[output].y = call.start_y
            /\ heap[output].x = call.start_x + 4 * default_spacing_x

(* C10: create_sequential_layout(["A","B"], start_x=50, start_y=50)       *)
(* yields exactly one arrow, whose points are [[0,0],[150,0]]: every such *)
(* call that returns yields it, and on a new agent the call returns.      *)
CallAB ==
    /\ call.op = "create_sequential_layout"
    /\ call.items = <<"A", "B">>
    /\ call.start_x = 50 * Scale
    /\ call.start_y = 50 * Scale

OneArrowWithPoints(dx, dy) ==
    /\ Len(RetArrows) = 1
    /\ heap[RetArrows[1]].points = << <<0, 0>>, <<dx, dy>> >>

---------------------------------------------------------------------------
(* What the last call created: the dicts numbered after the id counter    *)
(* the call found (seed is the counter at creation), in creation order.   *)
CreatedByCall ==
    SelectSeq([a \in 1..Len(heap) |-> a], LAMBDA a : heap[a].seed > call.before.counter)
CreatedShapes ==
    SelectSeq(CreatedByCall, LAMBDA a : heap[a].type \in {"rectangle", "ellipse"})
CreatedArrows == SelectSeq(CreatedByCall, LAMBDA a : heap[a].type = "arrow")

(* C11: create_sequential_layout places item i (from 0) at                *)
(* x = start_x + i * (120 + 150) and y = start_y; for ["A","B"] from      *)
(* (50, 50) the shapes are at x = 50 and x = 320, y = 50, and the arrow   *)
(* between them starts at (170, 80), ends at (320, 80), delta (150, 0).   *)
C11_SequentialPositions ==
    call.op = "create_sequential_layout" =>
        /\ Len(CreatedShapes) = Len(call.items)
        /\ \A i \in 1..Len(CreatedShapes) :
               /\ heap[CreatedShapes[i]].x = call.start_x + (i - 1) * (120 + 150) * Scale
               /\ heap[CreatedShapes[i]].y = call.start_y
        /\ CallAB =>
               /\ heap[CreatedShapes[1]].x = 50 * Scale
               /\ heap[CreatedShapes[2]].x = 320 * Scale
               /\ heap[CreatedShapes[1]].y = 50 * Scale
               /\ heap[CreatedShapes[2]].y = 50 * Scale
               /\ \A k \in 1..Len(CreatedArrows) :
                      LET arrow == heap[CreatedArrows[k]]
                      IN  /\ <<arrow.x, arrow.y>> = <<170 * Scale, 80 * Scale>>
                          /\ arrow.points[2] = <<150 * Scale, 0>>
                          /\ <<arrow.x + arrow.points[2][1], arrow.y + arrow.points[2][2]>>
                                 = <<320 * Scale, 80 * Scale>>

C11_Witness ==
    /\ CallAB
    /\ Len(CreatedShapes) = 2
    /\ Len(CreatedArrows) = 1
    /\ heap[CreatedArrows[1]].x = 170 * Scale

---------------------------------------------------------------------------
(* C12: an arrow created without explicit positions, from S to E, is at   *)
(* (S.x + S.width, S.y + S.height/2), its points are [[0,0],[dx,dy]] with *)
(* dx = E.x - (S.x + S.width) and                                         *)
(* dy = (E.y + E.height/2) - (S.y + S.height/2), and its width and height *)
(* are |dx| and |dy|, never negative.                                     *)
C12_ArrowGeometry ==
    \A a \in Addrs :
        heap[a].type = "arrow" =>
            LET arrow == heap[a]
                S == heap[AddrOf(arrow.startBinding.elementId)]
                E == heap[AddrOf(arrow.endBinding.elementId)]
                dx == E.x - (S.x + S.width)
                dy == (E.y + E.height \div 2) - (S.y + S.height \div 2)
            IN  /\ arrow.x = S.x + S.width
                /\ arrow.y = S.y + S.height \div 2
                /\ arrow.points = << <<0, 0>>, <<dx, dy>> >>
                /\ arrow.width = (IF dx < 0 THEN -dx ELSE dx)
                /\ arrow.height = (IF dy < 0 THEN -dy ELSE dy)
                /\ arrow.width >= 0
                /\ arrow.height >= 0

C12_Witness ==
    \E a \in Addrs :
        /\ heap[a].type = "arrow"
        /\ heap[a].points[2][1] < 0
        /\ heap[a].points[2][2] # 0
        /\ heap[a].width > 0

---------------------------------------------------------------------------
(* C13: create_routing_layout with no destination is guarded against the  *)
(* division by zero: it raises no arithmetic error, and if it rejects the *)
(* call the element list and the id counter are as the call found them.   *)
C13_RoutingZeroGuarded ==
    (call.op = "create_routing_layout" /\ call.items = <<>>) =>
        /\ err # "ZeroDivisionError"
        /\ err # NoError =>
               /\ elements = call.before.elements
               /\ element_counter = call.before.counter

\* C14: the element list is append-only: for every public operation the list
\* before the operation is a prefix of the list after it; no operation removes
\* or replaces an entry.  clear() (lines 635-640) empties the list.
IsPrefix(s, t) == Len(s) <= Len(t) /\ SubSeq(t, 1, Len(s)) = s

C14_AppendOnly == [][IsPrefix(elements, elements')]_vars

\* C15: over any sequence of operations, clear() included, the element id
\* counter never decreases, so an id once issued is never issued again.
\* clear() resets the counter to 0 and the next id issued is number 1 again.
C15_CounterNeverDecreases == [][element_counter' >= element_counter]_vars

\* C16: generate_excalidraw_json is a pure read: it leaves the element list,
\* the dicts, both counters and the active group unchanged, and returns the
\* document (type "excalidraw", version 2, the elements in add_element order,
\* the fixed appState, empty files); two consecutive calls return equal
\* documents.
IsDocumentOf(doc, list) ==
    /\ doc.type = "excalidraw"
    /\ doc.version = 2
    /\ doc.elements = list
    /\ doc.appState = appState
    /\ doc.files = {}

C16_JsonPureRead ==
    [][call'.op = "generate_excalidraw_json" =>
         /\ UNCHANGED <<heap, elements, element_counter, group_counter, current_group_id>>
         /\ err' = NoError
         /\ Len(ret') = 1
         /\ IsDocumentOf(ret'[1], elements)
         /\ call.op = "generate_excalidraw_json" => ret' = ret]_vars

C16_Witness ==
    /\ call.op = "generate_excalidraw_json"
    /\ Len(elements) = 2
    /\ ret[1].elements = elements
    /\ current_group_id # None

\* C17: the output is deterministic and per-instance: two fresh agents given
\* the same sequence of calls with the same arguments hold equal dicts (ids,
\* index, seed, versionNonce, updated), equal element lists and counters and
\* return the same values, however the calls on one are interleaved with the
\* calls on the other.
ListedOf(w) == [i \in 1..Len(w.elements) |-> w.heap[w.elements[i]]]

CreatedLabels ==
    {heap[a].text : a \in {b \in 1..Len(heap) : heap[b].seed > call.before.counter
                                                /\ heap[b].type = "text"}}

IsSequential4 ==
    /\ CreatedLabels = {"Step 1", "Step 2", "Step 3", "Step 4"}
    /\ Len(CreatedShapes) = 4 /\ Len(CreatedArrows) = 3
    /\ \A i \in 1..4 : heap[CreatedShapes[i]].y = 50 * Scale

IsRouting3 ==
    /\ CreatedLabels = {"Router", "LLM1", "LLM2", "LLM3"}
    /\ Len(CreatedShapes) = 4 /\ Len(CreatedArrows) = 3
    /\ heap[CreatedShapes[1]].y = 150 * Scale

IsParallel3 ==
    /\ CreatedLabels = {"Input", "Process A", "Process B", "Process C", "Output"}
    /\ Len(CreatedShapes) = 5 /\ Len(CreatedArrows) = 6
    /\ heap[CreatedShapes[1]].y = 300 * Scale

IsSequential3 ==
    /\ CreatedLabels = {"Input", "Process", "Output"}
    /\ Len(CreatedShapes) = 3 /\ Len(CreatedArrows) = 2

C18_DescriptionDispatch ==
    call.op = "create_flowchart_from_description" =>
        /\ err = NoError
        /\ call.description \in {DescParallelChain, DescSequential} => IsSequential4
        /\ call.description \in {DescARouter, DescRouting, DescRouterParallel} => IsRouting3
        /\ call.description = DescParallel => IsParallel3
        /\ call.description \in {DescFlow, DescEmpty, DescBrokenChain} => IsSequential3

C18_Witness ==
    /\ call.op = "create_flowchart_from_description"
    /\ call.description = DescParallelChain
    /\ IsSequential4
    /\ call.before.counter > 0

\* C19: group tagging follows the single active group: an element created
\* while a group is active has groupIds equal to the one-element list of that
\* group's id, an element created while no group is active (initially or
\* after end_group) has empty groupIds, start_group makes the id it returns
\* the active group in place of the one that was active, end_group leaves no
\* group active, and no element ever has more than one group id.
ActiveGroupTag == IF current_group_id # None THEN <<current_group_id>> ELSE <<>>

C19_GroupTagging ==
    [][/\ \A a \in 1..Len(heap') :
            /\ a > Len(heap) => heap'[a].groupIds = ActiveGroupTag
            /\ a <= Len(heap) => heap'[a].groupIds = heap[a].groupIds
            /\ Len(heap'[a].groupIds) <= 1
       /\ call'.op = "start_group" =>
            /\ current_group_id' = ret'[1]
            /\ current_group_id' # None
            /\ current_group_id' # current_group_id
       /\ call'.op = "end_group" => current_group_id' = None]_vars

C19_Witness ==
    /\ Len(heap) >= 3
    /\ heap[1].groupIds = <<"group-1">>
    /\ heap[2].groupIds = <<"g-group-2">>
    /\ heap[3].groupIds = <<>>

\* C20: create_parallel_layout with m items places item i (0-based) at
\* x = start_x + 2 * spacingX and y = start_y + (i - m/2) * spacingY with m/2
\* not rounded; for m = 3, start_y = 300 and spacingY = 100 the items are at
\* y = 150, 250 and 350, so no item is at the input's y.  The shapes the call
\* created are the input, then the items in order, then the output.
ParallelItemCount == Len(call.items)

C20_ParallelItemPositions ==
    call.op = "create_parallel_layout" =>
        /\ \A i \in 0..(ParallelItemCount - 1) :
              Len(CreatedShapes) >= i + 2 =>
                /\ heap[CreatedShapes[i + 2]].type = "rectangle"
                /\ heap[CreatedShapes[i + 2]].x = call.start_x + 2 * 150 * Scale
                /\ 2 * heap[CreatedShapes[i + 2]].y
                     = 2 * call.start_y + (2 * i - ParallelItemCount) * 100 * Scale
        /\ (ParallelItemCount = 3 /\ call.start_y = 300 * Scale /\ err = NoError) =>
              /\ heap[CreatedShapes[2]].y = 150 * Scale
              /\ heap[CreatedShapes[3]].y = 250 * Scale
              /\ heap[CreatedShapes[4]].y = 350 * Scale
              /\ heap[CreatedShapes[1]].y = 300 * Scale

C20_Witness ==
    /\ call.op = "create_parallel_layout"
    /\ err = NoError
    /\ ParallelItemCount = 3
    /\ call.start_y = 300 * Scale
    /\ Len(CreatedShapes) = 5
    /\ heap[CreatedShapes[2]].y = 150 * Scale

\* C22: a successful create_arrow changes the existing document only by
\* appending one entry to the boundElements of each of its two endpoint
\* elements: the length and order of the element list, every other field of
\* the endpoints and every field of every other element are unchanged, and
\* the new arrow itself is not added to the element list.
C22_ArrowCallFrame ==
    LET n == Len(heap')
        arrow == heap'[n]
        s == AddrOf(arrow.startBinding.elementId)
        e == AddrOf(arrow.endBinding.elementId)
        entry == [id |-> arrow.id, type |-> "arrow"]
    IN  /\ n = Len(heap) + 1
        /\ ret' = <<n>>
        /\ arrow.type = "arrow"
        /\ elements' = elements
        /\ ~Has(elements', n)
        /\ s # e
        /\ \A a \in 1..Len(heap) :
              heap'[a] = IF a \in {s, e}
                         THEN [heap[a] EXCEPT !.boundElements = Append(@, entry)]
                         ELSE heap[a]

C22_ArrowFrameEffect ==
    [][(call'.op = "create_arrow" /\ err' = NoError) => C22_ArrowCallFrame]_vars

C22_Witness ==
    /\ call.op = "create_arrow"
    /\ err = NoError
    /\ Len(heap) = 4
    /\ \E a \in Addrs : Len(heap[a].boundElements) = 2
    /\ \E a \in Addrs : heap[a].type # "arrow" /\ heap[a].boundElements = <<>>

\* C23: the three layout methods accept empty-string labels (router,
\* destination, input, item or output): the call completes without error,
\* the unlabeled shape is produced without a text element, and no entry of
\* the returned list or of the agent's element list is null.  (A routing
\* call without destinations is the case of C13 and is left aside.)
HasEmptyLabel ==
    \/ ~NonEmpty(call.items)
    \/ call.op = "create_routing_layout" /\ call.router_name = ""
    \/ call.op = "create_parallel_layout" /\ "" \in {call.input_name, call.output_name}

C23_EmptyLabelsAccepted ==
    (/\ call.op \in LayoutOps
     /\ HasEmptyLabel
     /\ call.op = "create_routing_layout" => Len(call.items) >= 1
     /\ call.before.elements = <<>>) =>
        /\ err = NoError
        /\ \A i \in 1..Len(ret) : ret[i] # NoneRef
        /\ \A k \in 1..Len(elements) : elements[k] # NoneRef

\* C24: in the document built by create_agent_framework_diagram every
\* reference resolves inside the document: each non-null containerId of a
\* text, each startBinding.elementId and endBinding.elementId of an arrow,
\* and each id listed in any element's boundElements is the id of some entry
\* of the agent's element list.
ResolvesInList(d) ==
    /\ (d.type = "text" /\ d.containerId # None) => d.containerId \in ListIds
    /\ d.type = "arrow" =>
          /\ d.startBinding.elementId \in ListIds
          /\ d.endBinding.elementId \in ListIds
    /\ \A j \in 1..Len(d.boundElements) : d.boundElements[j].id \in ListIds

C24_DemoReferencesResolve ==
    call.op = "create_agent_framework_diagram" =>
        /\ err = NoError
        /\ \A k \in 1..Len(elements) :
              elements[k] # NoneRef /\ ResolvesInList(heap[elements[k]])

C24_Witness ==
    /\ call.op = "create_agent_framework_diagram"
    /\ Cardinality(ListIds) = 45
    /\ \E k \in Listed : heap[elements[k]].type = "arrow"
    /\ \E k \in Listed : /\ heap[elements[k]].type = "text"
                          /\ heap[elements[k]].containerId # None

---------------------------------------------------------------------------
(* Claims about DrivingTestMonitor. *)

\* C21: in one start() run after a successful login, page refreshes repeat as
\* long as each check finds the no-slots marker and stop has not been
\* requested; at the first check whose page content lacks the marker the
\* notification routine is invoked exactly once, and no further refresh and
\* no further notification happens in that run.
SameRun == hist'.starts = hist.starts

C21_NoRefreshAfterFirstFind(t) ==
    (SameRun /\ task[t].absent_seen) => task'[t].refreshes = task[t].refreshes

C21_NotifiedOnce(t) ==
    task[t].notifications =
        IF task[t].absent_seen /\ task[t].pc # "l194" THEN 1 ELSE 0

C21_PollUntilFirstFind ==
    /\ [][C21_NoRefreshAfterFirstFind(1)]_vars
    /\ []C21_NotifiedOnce(1)
    /\ \A n \in 1..(MaxChecks - 1) :
          (task[1].refreshes = n /\ task[1].last_check = "marker" /\ ~hist.stop_called)
              ~> (task[1].refreshes = n + 1 \/ hist.stop_called)

C21_Witness ==
    /\ task[1].absent_seen
    /\ task[1].refreshes = 2
    /\ task[1].notifications = 1
    /\ task[1].pc = "l271"
    /\ ~hist.stop_called

\* C25: a stop request is never lost: if the GUI thread calls stop() at any
\* moment at which is_running() returns True for a monitor whose start()
\* runs on the monitor thread, then under any interleaving of the two
\* threads no page refresh is started after the stop() call (and start()
\* then returns with the browser closed).
C25_NoRefreshAfterStop == ~hist.refresh_after_stop

\* C26: once a check has found slots in a start() run, the browser stays
\* open and is_running() stays True until stop() is called; after stop() is
\* called the browser is closed and start() returns.
C26_OpenUntilStopped ==
    (task[1].slots_found /\ ~hist.stop_called) =>
        /\ task[1].browser = "open"
        /\ monitor._running
        /\ InProgress(1)

C26_ReturnedClosed ==
    /\ task[1].pc = "done"
    /\ task[1].exit = "returned"
    /\ task[1].browser = "closed"
    /\ ~monitor._running

C26_FoundThenOpenUntilStop ==
    /\ []C26_OpenUntilStopped
    /\ (task[1].slots_found /\ hist.stopped_after_found) ~> C26_ReturnedClosed

C26_Witness ==
    /\ task[1].slots_found
    /\ hist.stopped_after_found
    /\ C26_ReturnedClosed
    /\ task[1].closes = 1

\* C27: whenever start() has finished, whether by returning or by raising
\* (login failure, stop, an error in the polling loop, or a failure to
\* launch the browser), is_running() returns False, so a later start on that
\* monitor is not rejected as already running.  (An invocation that was
\* itself rejected as already running is left aside.)
C27_NotRunningWhenFinished ==
    (task[1].pc = "done" /\ ~task[1].rejected) => ~monitor._running

\* C28: every browser launched by start() is closed exactly once on every
\* exit path of that run: after a failed initial login, after a stop
\* request, and after an unexpected error in the polling loop.
C28_ClosedExactlyOnce ==
    (task[1].pc = "done" /\ task[1].browser # "none") =>
        /\ task[1].browser = "closed"
        /\ task[1].closes = 1

\* C29: start() invoked while a run of the same monitor is in progress
\* returns without launching a browser and without changing the running flag
\* or the stop flag, so at most one browser per monitor is open at any time
\* and a pending stop request of the running run is not cleared.
C29_ConcurrentStartRejected ==
    \A t \in Tasks :
        task[t].concurrent => (task[t].rejected /\ task[t].browser = "none")

\* C30: an error raised while refreshing or reading the page in
\* check_for_slots is treated as "no slots": the check returns False (the
\* run goes on to the wait of the interval with slots_found unset), no
\* notification is sent, and the run keeps polling with the next check after
\* the interval unless it is stopped; conversely a check whose page lacks
\* the marker returns True (slots_found is set) even when the notification
\* is skipped for missing credentials or fails to send.
C30_ErrorIsNoSlots ==
    (/\ SameRun
     /\ task[1].pc \in {"l247", "l188"}
     /\ task'[1] # task[1]
     /\ task'[1].last_check = "error") =>
        /\ task'[1].pc = "l263"
        /\ task'[1].waited = 0
        /\ ~task'[1].slots_found
        /\ task'[1].notifications = task[1].notifications

C30_NextCheckAfterInterval ==
    (task[1].pc = "l247" /\ task[1].check_count >= 1) =>
        task[1].waited = monitor.check_interval

C30_AbsentIsFound ==
    (task[1].notified # "none") =>
        /\ task[1].slots_found
        /\ task[1].notifications = 1

C30_ErrorsAndNotifications ==
    /\ [][C30_ErrorIsNoSlots]_vars
    /\ []C30_NextCheckAfterInterval
    /\ []C30_AbsentIsFound
    /\ \A n \in 1..(MaxChecks - 1) :
          (task[1].refreshes = n /\ task[1].last_check = "error" /\ ~hist.stop_called)
              ~> (task[1].refreshes = n + 1 \/ hist.stop_called)

C30_Witness ==
    /\ task[1].error_seen
    /\ task[1].refreshes = 2
    /\ task[1].notified \in {"skipped", "failed"}
    /\ task[1].slots_found
    /\ task[1].pc = "l270"
====
